---- MODULE Spec2Model ----
(***************************************************************************)
(* ReActChatEngine (llama_index/chat_engine/react.py): a chat engine that  *)
(* builds a LangChain conversational ReAct agent over a memory object and  *)
(* forwards chat calls to it.                                              *)
(*                                                                         *)
(* State: the heap of memory objects, the agent instances constructed so   *)
(* far, the engine (absent until a factory call returns one), the achat    *)
(* calls suspended at their await, and the outcome of the last call.       *)
(*                                                                         *)
(* Python's None is the empty sequence and a present value x is <<x>>.     *)
(***************************************************************************)
EXTENDS Integers, Sequences, FiniteSets, TLC

\* ------------------------------------------------------------------ bounds
\* Longest chat_history list given to a factory.
MaxHistory == 2
\* Most chat/achat calls that reach the agent over an engine's lifetime.
MaxRuns == 2
\* Most reset calls over an engine's lifetime.
MaxResets == 2

\* ------------------------------------------------------------------ values
None == <<>>
Some(x) == <<x>>
IsNone(o) == o = <<>>
Get(o) == o[1]

Roles == {"user", "assistant", "system"}
Contents == {"a", "b"}
ChatMessages == [role : Roles, content : Contents]

RECURSIVE SeqsUpTo(_, _)
SeqsUpTo(S, n) ==
    IF n = 0 THEN {<<>>}
    ELSE LET shorter == SeqsUpTo(S, n - 1)
         IN  shorter \cup {Append(s, x) : s \in {t \in shorter : Len(t) = n - 1}, x \in S}

\* ------------------------------------------------- message conversions
\* The conversions of llama_index.llms.langchain_utils, as the specification
\* describes them: each role goes to the LangChain message class of that role
\* and back, and the content is kept.
to_lc_message(m) ==
    [type |-> CASE m.role = "user" -> "human"
                [] m.role = "assistant" -> "ai"
                [] m.role = "system" -> "system",
     content |-> m.content]

from_lc_message(m) ==
    [role |-> CASE m.type = "human" -> "user"
                [] m.type = "ai" -> "assistant"
                [] m.type = "system" -> "system",
     content |-> m.content]

to_lc_messages(ms) == [i \in 1..Len(ms) |-> to_lc_message(ms[i])]

from_lc_messages(ms) == [i \in 1..Len(ms) |-> from_lc_message(ms[i])]

\* What the agent framework appends to the memory when a run succeeds: the
\* human input and the agent's answer.
Turn(message, response) ==
    << [type |-> "human", content |-> message],
       [type |-> "ai", content |-> response] >>

\* ------------------------------------------------------------------ inputs
\* The messages sent to chat/achat and the answers the agent gives.
Messages == {"a"}
Responses == {"b"}

\* The service context in effect after line 68: its predictor's class, the
\* class of the predictor's llm, and whether the wrapped LangChain model is a
\* chat model.
ServiceContexts ==
    [llm_predictor : {"LLMPredictor", "other"},
     llm : {"LangChainLLM", "other"},
     is_chat : BOOLEAN]

\* What a caller's memory object may already hold: nothing, a message, a turn.
CallerHistories ==
    {<<>>,
     <<[type |-> "human", content |-> "a"]>>,
     <<[type |-> "human", content |-> "a"], [type |-> "ai", content |-> "b"]>>}

\* A memory object the caller may pass: any BaseChatMemory, holding messages.
CallerMemories ==
    [kind : {"ConversationBufferMemory", "other"},
     messages : CallerHistories,
     return_messages : {TRUE}]

Optional(S) == {None} \cup {Some(x) : x \in S}

AMessage == [role |-> "user", content |-> "a"]

\* prefix_messages: absent, an empty list, a list of one message.
PrefixOptions == {None, Some(<<>>), Some(<<AMessage>>)}

ToolLists == {<<"t1", "t2">>}

\* The arguments of one from_defaults call.
FromDefaultsArgs ==
    [query_engine_tools : ToolLists,
     service_context : ServiceContexts,
     memory : Optional(CallerMemories),
     chat_history : Optional(SeqsUpTo(ChatMessages, MaxHistory)),
     verbose : BOOLEAN,
     system_prompt : Optional({"be brief"}),
     prefix_messages : PrefixOptions]

\* The arguments of one from_query_engine call; system_prompt and
\* prefix_messages travel in **kwargs.
FromQueryEngineArgs ==
    [query_engine : {"qe"},
     service_context : ServiceContexts,
     memory : Optional(CallerMemories),
     chat_history : Optional(SeqsUpTo(ChatMessages, MaxHistory)),
     verbose : BOOLEAN,
     system_prompt : Optional({"be brief"}),
     prefix_messages : PrefixOptions]

\* The chat_history argument of chat, achat, stream_chat and astream_chat.
HistoryOverrides == {None, Some(<<>>), Some(<<AMessage>>)}

\* The engines whose whole lifetime is explored: from_defaults calls with
\* verbose off, no system prompt and a short history or memory.
EngineArgs ==
    {a \in FromDefaultsArgs :
        /\ a.verbose = FALSE
        /\ IsNone(a.system_prompt)
        /\ a.chat_history \in {None, Some(<<AMessage>>)}
        /\ \/ IsNone(a.memory)
           \/ Get(a.memory).messages \in {<<>>, <<[type |-> "human", content |-> "a"]>>}}

\* ------------------------------------------------------------------- state
VARIABLES
    args,       \* None before the factory call, then Some(its arguments)
    memories,   \* the heap of memory objects; a reference is an index
    agents,     \* every agent instance constructed; a reference is an index
    engine,     \* None, or Some(the ReActChatEngine instance)
    pending,    \* the achat calls suspended at their await, oldest first
    resets,     \* [calls, returns]: reset calls made, and those that returned
    result      \* the last call: what was called, with what, and how it ended

vars == <<args, memories, agents, engine, pending, resets, result>>

Self == Get(engine)

NoResult ==
    [op |-> "none", outcome |-> "none", chat_history |-> None,
     response |-> None, history |-> <<>>, agent |-> 0]

Errors == {"ValueError", "NotImplementedError", "AssertionError",
           "AgentInitError", "AgentRunError"}

Init ==
    /\ args = None
    /\ memories = <<>>
    /\ agents = <<>>
    /\ engine = None
    /\ pending = <<>>
    /\ resets = [calls |-> 0, returns |-> 0]
    /\ result = NoResult

\* ------------------------------------------------------------ construction
is_chat_model(llm) == llm.is_chat

\* The checks without the one on memory and chat_history together.
config_error_merging(a) ==
    IF a.service_context.llm_predictor # "LLMPredictor" THEN Some("ValueError")
    ELSE IF a.service_context.llm # "LangChainLLM" THEN Some("ValueError")
    ELSE None

\* Lines 68-77: the checks on the service context and on memory/chat_history.
config_error(a) ==
    IF a.service_context.llm_predictor # "LLMPredictor" THEN Some("ValueError")
    ELSE IF a.service_context.llm # "LangChainLLM" THEN Some("ValueError")
    ELSE IF ~IsNone(a.chat_history) /\ ~IsNone(a.memory) THEN Some("ValueError")
    ELSE None

\* chat_history dropped: the memory starts empty whatever was passed.
initial_lc_messages_dropped(a) == to_lc_messages(<<>>)

\* Lines 80-81: the messages of the memory built when none is given.
initial_lc_messages(a) ==
    to_lc_messages(IF IsNone(a.chat_history) THEN <<>> ELSE Get(a.chat_history))

\* Lines 83-87.
new_memory(a) ==
    [kind |-> "ConversationBufferMemory",
     messages |-> initial_lc_messages(a),
     return_messages |-> is_chat_model(a.service_context)]

\* Truthiness instead of "is not None": an empty prefix list passes.
prefix_error_truthy(a) ==
    IF ~IsNone(a.prefix_messages) /\ Get(a.prefix_messages) # <<>>
    THEN Some("NotImplementedError") ELSE None

\* Lines 89-92.
prefix_error(a) ==
    IF ~IsNone(a.prefix_messages) THEN Some("NotImplementedError") ELSE None

\* Lines 126-137 and the arguments of initialize_agent, lines 138-145.
agent_type(self) ==
    IF is_chat_model(self.llm)
    THEN "CHAT_CONVERSATIONAL_REACT_DESCRIPTION"
    ELSE "CONVERSATIONAL_REACT_DESCRIPTION"

\* The two keys exchanged between the variants.
agent_kwargs_swapped(self) ==
    IF is_chat_model(self.llm)
    THEN IF ~IsNone(self.system_prompt)
         THEN {<<"prefix", Get(self.system_prompt)>>} ELSE {}
    ELSE IF ~IsNone(self.system_prompt)
         THEN {<<"system_message", Get(self.system_prompt)>>} ELSE {}

agent_kwargs(self) ==
    IF is_chat_model(self.llm)
    THEN IF ~IsNone(self.system_prompt)
         THEN {<<"system_message", Get(self.system_prompt)>>} ELSE {}
    ELSE IF ~IsNone(self.system_prompt)
         THEN {<<"prefix", Get(self.system_prompt)>>} ELSE {}

create_agent(self) ==
    [tools |-> [i \in 1..Len(self.query_engine_tools) |->
                    [name |-> self.query_engine_tools[i]]],
     llm |-> self.llm,
     agent |-> agent_type(self),
     memory |-> self.memory,
     verbose |-> self.verbose,
     agent_kwargs |-> agent_kwargs(self),
     runs |-> 0]

\* Lines 37-51 without the agent: the fields __init__ stores.
new_engine(tools, llm, memory, system_prompt, verbose) ==
    [query_engine_tools |-> tools,
     llm |-> llm,
     memory |-> memory,
     system_prompt |-> system_prompt,
     verbose |-> verbose,
     agent |-> 0]

\* from_defaults, lines 54-100, with __init__ (37-51). init_ok is whether
\* initialize_agent returns an agent or raises.
from_defaults(a, op, init_ok) ==
    LET heap0 == IF IsNone(a.memory) THEN <<>> ELSE <<Get(a.memory)>>
        e1 == config_error(a)
        heap1 == IF IsNone(a.memory) THEN Append(heap0, new_memory(a)) ELSE heap0
        e2 == prefix_error(a)
        self == new_engine(a.query_engine_tools,
                           [is_chat |-> a.service_context.is_chat],
                           1, a.system_prompt, a.verbose)
        failed(err, heap) ==
            /\ memories' = heap
            /\ result' = [NoResult EXCEPT !.op = op, !.outcome = err]
            /\ UNCHANGED <<agents, engine>>
    IN  /\ args' = Some(a)
        /\ UNCHANGED <<pending, resets>>
        /\ IF ~IsNone(e1) THEN failed(Get(e1), heap0)
           ELSE IF ~IsNone(e2) THEN failed(Get(e2), heap1)
           ELSE IF ~init_ok THEN failed("AgentInitError", heap1)
           ELSE /\ memories' = heap1
                /\ agents' = <<create_agent(self)>>
                /\ engine' = Some([self EXCEPT !.agent = 1])
                /\ result' = [NoResult EXCEPT !.op = op, !.outcome = "ok", !.agent = 1]

FromDefaults ==
    /\ IsNone(args)
    /\ \E a \in FromDefaultsArgs, init_ok \in BOOLEAN :
           from_defaults(a, "from_defaults", init_ok)

\* from_query_engine, lines 103-124: one tool made of the query engine, the
\* rest forwarded.
from_query_engine(q, init_ok) ==
    from_defaults(
        [query_engine_tools |-> <<q.query_engine>>,
         service_context |-> q.service_context,
         memory |-> q.memory,
         chat_history |-> q.chat_history,
         verbose |-> q.verbose,
         system_prompt |-> q.system_prompt,
         prefix_messages |-> q.prefix_messages],
        "from_query_engine", init_ok)

FromQueryEngine ==
    /\ IsNone(args)
    /\ \E q \in FromQueryEngineArgs, init_ok \in BOOLEAN :
           from_query_engine(q, init_ok)

\* ------------------------------------------------------------ the engine
RECURSIVE SumRuns(_)
SumRuns(as) == IF as = <<>> THEN 0 ELSE Head(as).runs + SumRuns(Tail(as))

\* Runs of the agent entry points (run and arun) started so far.
TotalRuns == SumRuns(agents)

Called(op, message, chat_history) ==
    [NoResult EXCEPT !.op = op, !.chat_history = chat_history,
                     !.agent = Self.agent]

\* The chat_history property, lines 147-150.
chat_history_get ==
    /\ IF memories[Self.memory].kind # "ConversationBufferMemory"
       THEN result' = [NoResult EXCEPT !.op = "chat_history",
                                       !.outcome = "AssertionError",
                                       !.agent = Self.agent]
       ELSE result' = [NoResult EXCEPT !.op = "chat_history", !.outcome = "ok",
                           !.history = from_lc_messages(memories[Self.memory].messages),
                           !.agent = Self.agent]
    /\ UNCHANGED <<args, memories, agents, engine, pending, resets>>

ChatHistory == ~IsNone(engine) /\ chat_history_get

\* Truthiness instead of "is not None": an empty override passes.
history_rejected_truthy(chat_history) ==
    ~IsNone(chat_history) /\ Get(chat_history) # <<>>

\* Lines 155-158 and 166-169: the guard chat and achat share.
history_rejected(chat_history) == ~IsNone(chat_history)

\* The agent framework, at the end of a run on agent i: a run that succeeds
\* saves the turn to the memory the agent was built with.
save_context(i, message, response) ==
    [memories EXCEPT ![agents[i].memory].messages = @ \o Turn(message, response)]

\* chat, lines 152-161. run_ok: whether the agent's run returns or raises.
chat(message, chat_history, run_ok, response) ==
    IF history_rejected(chat_history)
    THEN /\ result' = [Called("chat", message, chat_history)
                           EXCEPT !.outcome = "NotImplementedError"]
         /\ UNCHANGED <<args, memories, agents, engine, pending, resets>>
    ELSE /\ TotalRuns < MaxRuns
         /\ agents' = [agents EXCEPT ![Self.agent].runs = @ + 1]
         /\ IF run_ok
            THEN /\ memories' = save_context(Self.agent, message, response)
                 /\ result' = [Called("chat", message, chat_history)
                                   EXCEPT !.outcome = "ok", !.response = Some(response)]
            ELSE /\ memories' = memories
                 /\ result' = [Called("chat", message, chat_history)
                                   EXCEPT !.outcome = "AgentRunError"]
         /\ UNCHANGED <<args, engine, pending, resets>>

Chat ==
    /\ ~IsNone(engine)
    /\ \E message \in Messages, chat_history \in HistoryOverrides,
          run_ok \in BOOLEAN, response \in Responses :
           chat(message, chat_history, run_ok, response)

\* achat building an agent of its own for the call.
achat_own_agent(message, chat_history) ==
    IF history_rejected(chat_history)
    THEN /\ result' = [Called("achat", message, chat_history)
                           EXCEPT !.outcome = "NotImplementedError"]
         /\ UNCHANGED <<args, memories, agents, engine, pending, resets>>
    ELSE /\ TotalRuns < MaxRuns
         /\ agents' = Append(agents, [create_agent(Self) EXCEPT !.runs = 1])
         /\ engine' = Some([Self EXCEPT !.agent = Len(agents) + 1])
         /\ pending' = Append(pending, [agent |-> Len(agents) + 1,
                                        message |-> message])
         /\ result' = [Called("achat", message, chat_history)
                           EXCEPT !.outcome = "awaiting", !.agent = Len(agents) + 1]
         /\ UNCHANGED <<args, memories, resets>>

\* achat up to its await, lines 163-171: the guard, then arun is entered on
\* the agent in use now and the call is suspended.
achat(message, chat_history) ==
    IF history_rejected(chat_history)
    THEN /\ result' = [Called("achat", message, chat_history)
                           EXCEPT !.outcome = "NotImplementedError"]
         /\ UNCHANGED <<args, memories, agents, engine, pending, resets>>
    ELSE /\ TotalRuns < MaxRuns
         /\ agents' = [agents EXCEPT ![Self.agent].runs = @ + 1]
         /\ pending' = Append(pending, [agent |-> Self.agent, message |-> message])
         /\ result' = [Called("achat", message, chat_history)
                           EXCEPT !.outcome = "awaiting"]
         /\ UNCHANGED <<args, memories, engine, resets>>

AChat ==
    /\ ~IsNone(engine)
    /\ \E message \in Messages, chat_history \in HistoryOverrides :
           achat(message, chat_history)

\* achat from its await on, lines 171-172: the arun of suspended call k ends,
\* on the agent the call was started on.
achat_resume(k, run_ok, response) ==
    LET call == pending[k]
        done == [NoResult EXCEPT !.op = "achat_resume", !.agent = call.agent]
    IN  /\ pending' = [j \in 1..(Len(pending) - 1) |->
                           IF j < k THEN pending[j] ELSE pending[j + 1]]
        /\ IF run_ok
           THEN /\ memories' = save_context(call.agent, call.message, response)
                /\ result' = [done EXCEPT !.outcome = "ok",
                                          !.response = Some(response)]
           ELSE /\ memories' = memories
                /\ result' = [done EXCEPT !.outcome = "AgentRunError"]
        /\ UNCHANGED <<args, agents, engine, resets>>

AChatResume ==
    \E k \in 1..Len(pending), run_ok \in BOOLEAN, response \in Responses :
        achat_resume(k, run_ok, response)

\* stream_chat answering through the agent instead of refusing.
stream_chat_forwarding(message, chat_history) ==
    /\ agents' = [agents EXCEPT ![Self.agent].runs = @ + 1]
    /\ memories' = save_context(Self.agent, message, "b")
    /\ result' = [Called("stream_chat", message, chat_history)
                      EXCEPT !.outcome = "ok", !.response = Some("b")]
    /\ UNCHANGED <<args, engine, pending, resets>>

\* stream_chat, lines 174-177.
stream_chat(message, chat_history) ==
    /\ result' = [Called("stream_chat", message, chat_history)
                      EXCEPT !.outcome = "NotImplementedError"]
    /\ UNCHANGED <<args, memories, agents, engine, pending, resets>>

StreamChat ==
    /\ ~IsNone(engine)
    /\ \E message \in Messages, chat_history \in HistoryOverrides :
           stream_chat(message, chat_history)

\* astream_chat, lines 179-184.
astream_chat(message, chat_history) ==
    /\ result' = [Called("astream_chat", message, chat_history)
                      EXCEPT !.outcome = "NotImplementedError"]
    /\ UNCHANGED <<args, memories, agents, engine, pending, resets>>

AStreamChat ==
    /\ ~IsNone(engine)
    /\ \E message \in Messages, chat_history \in HistoryOverrides :
           astream_chat(message, chat_history)

\* A clear that leaves the messages in place.
clear_nothing(m) == memories

\* BaseChatMemory.clear() on memory object m, line 187.
clear(m) == [memories EXCEPT ![m].messages = <<>>]

\* A reset that leaves the old memory alone and gives the new agent a new,
\* empty memory object.
reset_new_memory(init_ok) ==
    /\ resets.calls < MaxResets
    /\ memories' = Append(memories, [memories[Self.memory] EXCEPT !.messages = <<>>])
    /\ IF init_ok
       THEN /\ agents' = Append(agents,
                    create_agent([Self EXCEPT !.memory = Len(memories) + 1]))
            /\ engine' = Some([Self EXCEPT !.agent = Len(agents) + 1,
                                           !.memory = Len(memories) + 1])
            /\ resets' = [calls |-> resets.calls + 1, returns |-> resets.returns + 1]
            /\ result' = [NoResult EXCEPT !.op = "reset", !.outcome = "ok",
                                          !.agent = Len(agents) + 1]
       ELSE /\ resets' = [resets EXCEPT !.calls = @ + 1]
            /\ result' = [NoResult EXCEPT !.op = "reset",
                                          !.outcome = "AgentInitError",
                                          !.agent = Self.agent]
            /\ UNCHANGED <<agents, engine>>
    /\ UNCHANGED <<args, pending>>

\* reset, lines 186-188: the memory is cleared, then the agent is rebuilt.
\* init_ok: whether initialize_agent returns an agent or raises.
reset(init_ok) ==
    /\ resets.calls < MaxResets
    /\ memories' = clear(Self.memory)
    /\ IF init_ok
       THEN /\ agents' = Append(agents, create_agent(Self))
            /\ engine' = Some([Self EXCEPT !.agent = Len(agents) + 1])
            /\ resets' = [calls |-> resets.calls + 1, returns |-> resets.returns + 1]
            /\ result' = [NoResult EXCEPT !.op = "reset", !.outcome = "ok",
                                          !.agent = Len(agents) + 1]
       ELSE /\ resets' = [resets EXCEPT !.calls = @ + 1]
            /\ result' = [NoResult EXCEPT !.op = "reset",
                                          !.outcome = "AgentInitError",
                                          !.agent = Self.agent]
            /\ UNCHANGED <<agents, engine>>
    /\ UNCHANGED <<args, pending>>

Reset == ~IsNone(engine) /\ \E init_ok \in BOOLEAN : reset(init_ok)

\* The engine's construction, for the runs that follow it through its life.
Construct ==
    /\ IsNone(args)
    /\ \E a \in EngineArgs, init_ok \in BOOLEAN :
           from_defaults(a, "from_defaults", init_ok)

\* Construction over all the factory arguments, and what reads or rebuilds
\* the configuration afterwards.
NextConfig ==
    \/ FromDefaults
    \/ FromQueryEngine
    \/ ChatHistory
    \/ Reset

SpecConfig == Init /\ [][NextConfig]_vars

Next ==
    \/ Construct
    \/ ChatHistory
    \/ Chat
    \/ AChat
    \/ AChatResume
    \/ StreamChat
    \/ AStreamChat
    \/ Reset

Spec == Init /\ [][Next]_vars

\* ------------------------------------------------------------ properties
Factories == {"from_defaults", "from_query_engine"}

\* The messages of the engine's memory.
Memory == memories[Self.memory].messages

ContextAccepted(a) ==
    /\ a.service_context.llm_predictor = "LLMPredictor"
    /\ a.service_context.llm = "LangChainLLM"

\* C1: a factory call given both memory and chat_history (an empty list
\* included) ends in an error; no engine and no agent exist afterwards and the
\* caller's memory object is as it was passed.
C1_MemoryAndHistoryRejected ==
    (~IsNone(args) /\ ~IsNone(Get(args).memory) /\ ~IsNone(Get(args).chat_history))
        => /\ result.op \in Factories
           /\ result.outcome \in Errors
           /\ IsNone(engine)
           /\ agents = <<>>
           /\ memories = <<Get(Get(args).memory)>>

C1_Witness ==
    /\ ~IsNone(args)
    /\ ContextAccepted(Get(args))
    /\ ~IsNone(Get(args).memory)
    /\ Get(args).chat_history = Some(<<>>)
    /\ IsNone(Get(args).prefix_messages)
    /\ result.op = "from_query_engine"
    /\ result.outcome = "ValueError"

\* C2: a factory call given prefix_messages (an empty list included) ends in
\* an error whatever the other arguments are; no engine and no agent exist
\* afterwards.
C2_PrefixMessagesRejected ==
    (~IsNone(args) /\ ~IsNone(Get(args).prefix_messages))
        => /\ result.op \in Factories
           /\ result.outcome \in Errors
           /\ IsNone(engine)
           /\ agents = <<>>

C2_Witness ==
    /\ ~IsNone(args)
    /\ ContextAccepted(Get(args))
    /\ IsNone(Get(args).memory)
    /\ Get(args).prefix_messages = Some(<<>>)
    /\ result.op = "from_query_engine"
    /\ result.outcome = "NotImplementedError"
    /\ IsNone(engine)

\* C3: every stream_chat and astream_chat call ends in NotImplementedError and
\* changes neither the memory, nor the agents (none is run, none is built),
\* nor the engine, nor the suspended calls.
C3_StreamingAlwaysFails ==
    [][result'.op \in {"stream_chat", "astream_chat"}
        => /\ result'.outcome = "NotImplementedError"
           /\ UNCHANGED <<memories, agents, engine, pending>>]_vars

C3_Witness ==
    /\ result.op = "astream_chat"
    /\ result.outcome = "NotImplementedError"
    /\ IsNone(result.chat_history)
    /\ resets.returns >= 1
    /\ Memory # <<>>

\* C4: a chat or achat call with a chat_history that is not None (an empty
\* list included) ends in NotImplementedError with no agent run entered, no
\* call suspended and the memory as before.
C4_HistoryOverrideRejected ==
    [][(result'.op \in {"chat", "achat"} /\ ~IsNone(result'.chat_history))
        => /\ result'.outcome = "NotImplementedError"
           /\ UNCHANGED <<memories, agents, engine, pending>>]_vars

C4_Witness ==
    /\ result.op = "achat"
    /\ result.chat_history = Some(<<>>)
    /\ result.outcome = "NotImplementedError"
    /\ Memory # <<>>

\* C5: when reset returns, the memory holds no message and the engine's agent
\* is an instance built by this reset: one that did not exist before, other
\* than the agent in use before, and never run.
C5_ResetClearsAndRebuilds ==
    [][(result'.op = "reset" /\ result'.outcome = "ok")
        => /\ memories'[Self'.memory].messages = <<>>
           /\ Self'.memory = Self.memory
           /\ Self'.agent # Self.agent
           /\ Self'.agent \notin 1..Len(agents)
           /\ Self'.agent \in 1..Len(agents')
           /\ agents'[Self'.agent] = create_agent(Self)]_vars

C5_Witness ==
    /\ result.op = "reset"
    /\ result.outcome = "ok"
    /\ resets.returns = 2
    /\ TotalRuns >= 2
    /\ pending = <<>>

C7_NothingPartiallyApplied ==
    [][result'.outcome \in {"ValueError", "NotImplementedError", "AssertionError",
                            "AgentInitError"}
        => IF result'.op \in Factories
           THEN /\ IsNone(engine')
                /\ agents' = agents
                /\ ~IsNone(Get(args').memory)
                       => memories'[1] = Get(Get(args').memory)
           ELSE /\ memories'[Self.memory].messages = Memory
                /\ engine' = engine
                /\ agents' = agents]_vars

\* C8 as claimed: the engine's agent is the one instance built last, only
\* reset replaces it, and the instances built number one plus the reset calls.
C8_OneAgentPerResetCall ==
    /\ [](~IsNone(engine)
            => /\ Self.agent = Len(agents)
               /\ Len(agents) = 1 + resets.calls)
    /\ [][(~IsNone(engine) /\ Self'.agent # Self.agent)
            => result'.op = "reset"]_vars

\* C8 amended: the same, the instances built numbering one plus the reset
\* calls that returned.
C8_OneAgentPerResetReturned ==
    /\ [](~IsNone(engine)
            => /\ Self.agent = Len(agents)
               /\ Len(agents) = 1 + resets.returns)
    /\ [][(~IsNone(engine) /\ (Self'.agent # Self.agent \/ Len(agents') # Len(agents)))
            => (result'.op = "reset" /\ result'.outcome = "ok")]_vars

C8_Witness ==
    /\ ~IsNone(engine)
    /\ resets.calls = 2
    /\ resets.returns = 1
    /\ TotalRuns = 2
    /\ Len(agents) = 2
    /\ result.op = "achat_resume"

\* C9: every agent built, at construction and at each reset, has the variant
\* and the keyword arguments the factory's inputs determine: the chat variant
\* with the system prompt under system_message for a chat model, the
\* completion variant with it under prefix otherwise, no keyword argument
\* when there is no system prompt, and never both keys.
C9_AgentConfiguredByRule ==
    ~IsNone(engine) =>
        \A i \in 1..Len(agents) :
            LET ag == agents[i]
                sp == Get(args).system_prompt
                chat_model == Get(args).service_context.is_chat
                keys == {kv[1] : kv \in ag.agent_kwargs}
            IN  /\ chat_model =>
                       /\ ag.agent = "CHAT_CONVERSATIONAL_REACT_DESCRIPTION"
                       /\ ~IsNone(sp) =>
                              ag.agent_kwargs = {<<"system_message", Get(sp)>>}
                /\ ~chat_model =>
                       /\ ag.agent = "CONVERSATIONAL_REACT_DESCRIPTION"
                       /\ ~IsNone(sp) => ag.agent_kwargs = {<<"prefix", Get(sp)>>}
                /\ IsNone(sp) => ag.agent_kwargs = {}
                /\ keys \subseteq {"system_message", "prefix"}
                /\ Cardinality(keys) <= 1

C9_Witness ==
    /\ ~IsNone(engine)
    /\ Len(agents) = 3
    /\ ~IsNone(Get(args).system_prompt)
    /\ ~Get(args).service_context.is_chat
    /\ agents[3].agent_kwargs = {<<"prefix", "be brief">>}

\* C10: every agent, replaced or current, holds the one memory object the
\* engine was built with, and a suspended achat that completes writes its turn
\* to that object, also when a reset has replaced the agent it runs on.
C10_AgentsShareTheMemory ==
    /\ [](~IsNone(engine)
            => /\ Len(memories) = 1
               /\ \A i \in 1..Len(agents) : agents[i].memory = Self.memory)
    /\ [][(result'.op = "achat_resume" /\ result'.outcome = "ok")
            => \E k \in 1..Len(pending) :
                   /\ result'.agent = pending[k].agent
                   /\ memories'[Self'.memory].messages =
                          Memory \o Turn(pending[k].message, Get(result'.response))]_vars

\* After a reset, an achat started before it has completed on the replaced
\* agent: the memory holds its turn although the agent in use was never run.
C10_Witness ==
    /\ ~IsNone(engine)
    /\ result.op = "achat_resume"
    /\ result.outcome = "ok"
    /\ result.agent # Self.agent
    /\ agents[Self.agent].runs = 0
    /\ resets.returns >= 1
    /\ pending = <<>>
    /\ Memory = Turn("a", "b")

====
